---- MODULE Spec2Model ----
(***************************************************************************)
(* Device-authorization and state-synchronization model of the ESP32       *)
(* secure dashboard: the session store (AuthManager), the device cache and *)
(* access filter (DashboardManager), the command dispatcher (toggleRelay,  *)
(* setPwm) and user administration (AdminManager), against the remote      *)
(* realtime store.  The repository holds several variants of each class;   *)
(* a variant variable selects which one a behaviour runs.                  *)
(***************************************************************************)
EXTENDS Integers, Sequences, FiniteSets, Bags, TLC

\* ------------------------------------------------------------------------
\* JavaScript values
\* ------------------------------------------------------------------------
\* null (no signed-in user, a Firebase user without e-mail)
Null == "null"
\* undefined (a property that is absent from a stored object)
Undefined == "undefined"

\* ------------------------------------------------------------------------
\* Domains
\* ------------------------------------------------------------------------
Uids == {"u1", "u2", "u3"}
Emails == {"a@x.com", "b@x.com"}
\* user.email of the Firebase user with the given uid (u3 has no e-mail)
EmailOf(u) ==
    CASE u = "u1" -> "a@x.com"
      [] u = "u2" -> "b@x.com"
      [] OTHER -> Null
DeviceIds == {"ESP32_A", "ESP32_B"}
RelayIds == {0, 1}
\* a relay's stored state: absent, or a boolean
RelayVals == {"absent", "false", "true"}
Roles == {"user", "admin"}

\* the three DashboardManager variants of src/unnamed/part_001
DashVariants == {"dash164", "dash482", "dash749"}

\* the three AuthManager variants (part_000 overrides the sign-in handling
\* of part_001 and adds the ID-token listener)
AuthVariants == {"auth.js", "part_000", "part_001"}
\* users/{id}: no record, a record without a role, or a record with a role
UserRecs == {"absent", "norole", "user", "admin"}

\* in-flight toggleRelay calls of the variant that reads the remote store
MaxInFlight == 1
\* role lookups in flight at one time
MaxLookups == 2
\* the two AdminManager variants
AdminVariants == {"admin.js", "part_002"}
\* the clock when the page is loaded, in seconds since the epoch
NowBase == 1000000
\* how many seconds past NowBase the clock is followed
MaxClock == 1
\* callbacks registered through onAuthStateChanged
MaxCallbacks == 2
\* user-administration calls in flight at one time
MaxAdminOps == 1

VARIABLES
    devices,        \* remote store: devices/{id}
    admins,         \* remote store: the ids that have an admins/{id} entry
    users,          \* remote store: users/{id}
    accounts,       \* identity service: the ids that have an account
    authVariant,    \* which AuthManager is loaded
    fbUser,         \* identity service: the user signed in (a uid, or Null)
    lastNotified,   \* the user the auth state listener was last called with
    lookups,        \* role lookups suspended at an await
    currentUser,    \* AuthManager.currentUser (a uid, or Null)
    userRole,       \* AuthManager.userRole
    isAdmin,        \* AuthManager.isAdmin
    adminVariant,   \* which AdminManager is loaded
    adminDb,        \* AdminManager.db / .database has been set by initialize
    adminUsers,     \* the ids held in AdminManager.users
    adminListening, \* setupAdminListeners has subscribed to users
    adminOps,       \* user-administration calls suspended at an await
    dashVariant,    \* which DashboardManager is loaded
    devicesData,    \* DashboardManager.devicesData
    userDevices,    \* DashboardManager.userDevices
    toggles,        \* toggleRelay calls suspended between their read and write
    now,            \* Date.now(): seconds and milliseconds since the epoch
    authStateCallbacks, \* AuthManager.authStateCallbacks (auth.js)
    subscribed,     \* the 'value' listener on devices is attached
    last            \* the handler step taken last, with what it issued

vars == <<devices, admins, users, accounts, authVariant, fbUser, lastNotified,
          lookups, currentUser, userRole, isAdmin, adminVariant, adminDb,
          adminUsers, adminListening, adminOps, dashVariant, devicesData,
          userDevices, toggles, now, authStateCallbacks, subscribed,
          last>>
sessVars == <<currentUser, userRole, isAdmin>>
storeVars == <<admins, users, accounts>>
authVars == <<authVariant, fbUser, lastNotified, lookups>>
adminVars == <<adminVariant, adminDb, adminUsers, adminListening, adminOps>>
dashVars == <<dashVariant, devicesData, userDevices, toggles>>
restVars == <<now, authStateCallbacks, subscribed>>

\* ------------------------------------------------------------------------
\* Records
\* ------------------------------------------------------------------------
EmptyMap == [x \in {} |-> {}]
Put(f, k, v) == [x \in (DOMAIN f) \cup {k} |-> IF x = k THEN v ELSE f[x]]

\* devices/{id}: owner_email may be absent; data may be absent (hasData);
\* data.relays[i].state may be absent; data.pwm.brightness and data.timestamp
\* (seconds since the epoch) are absent ({}) or one integer ({n})
Device(owner, relays, brightness) ==
    [owner_email |-> owner, relays |-> relays, brightness |-> brightness,
     hasData |-> TRUE, timestamp |-> {}]
NoRelays == [i \in RelayIds |-> "absent"]

\* one remote write as issued: the path template, its keys and the value
RelayPath == "devices/{id}/data/relays/{i}/state"
PwmPath == "devices/{id}/data/pwm/brightness"
Write(path, key, idx, sval, ival) ==
    [path |-> path, key |-> key, idx |-> idx, sval |-> sval, ival |-> ival]

\* what the last handler step did: the operation, its target, the state it
\* argument (arg), the state it read (cur), the error it ended with and the
\* remote writes it issued
Did(op, key, idx, arg, cur, err, writes) ==
    [op |-> op, key |-> key, idx |-> idx, arg |-> arg, cur |-> cur,
     err |-> err, writes |-> writes]

\* ------------------------------------------------------------------------
\* Access filter
\* ------------------------------------------------------------------------
\* a bug that drops the admin clause of the visibility test
Accessible_NoAdmin(adm, owner, email) == owner = email

\* a bug that compares with ==, under which null equals undefined
Accessible_LooseEquality(adm, owner, email) ==
    adm \/ owner = email \/ {owner, email} \subseteq {Null, Undefined}

\* this.auth.isAdmin || device.owner_email === userEmail
Accessible(adm, owner, email) == adm \/ owner = email

\* the for-in loop of filterUserDevices over the keys not yet visited
RECURSIVE FilterLoop(_, _, _, _, _)
FilterLoop(allDevices, todo, filtered, adm, email) ==
    IF todo = {} THEN filtered
    ELSE LET deviceId == CHOOSE d \in todo : TRUE
             device == allDevices[deviceId]
         IN FilterLoop(allDevices, todo \ {deviceId},
                       IF Accessible(adm, device.owner_email, email)
                       THEN Put(filtered, deviceId, device)
                       ELSE filtered,
                       adm, email)

filterUserDevices(allDevices) ==
    FilterLoop(allDevices, DOMAIN allDevices, EmptyMap, isAdmin,
               EmailOf(currentUser))

\* ------------------------------------------------------------------------
\* Device cache
\* ------------------------------------------------------------------------
\* devicesRef.on('value', ...): one snapshot of the whole collection is
\* delivered.  devicesData is assigned first; filterUserDevices then reads
\* currentUser.email, which throws when no user is signed in and leaves
\* userDevices as it was.
SnapshotDelivered ==
    /\ subscribed
    /\ devicesData' = devices
    /\ userDevices' = IF currentUser = Null THEN userDevices
                      ELSE filterUserDevices(devices)
    /\ last' = Did("snapshot", "", 0, <<>>, "",
                   IF currentUser = Null THEN "TypeError" ELSE "none", <<>>)
    /\ UNCHANGED <<devices, storeVars, adminVars, authVars, sessVars, restVars, dashVariant, toggles>>

\* the provisioning flow (outside this repository) registers a device
ProvisionDevice ==
    \E d \in DeviceIds \ DOMAIN devices, owner \in Emails \cup {Undefined} :
        /\ devices' = Put(devices, d, Device(owner, NoRelays, {}))
        /\ last' = Did("provision", d, 0, <<>>, "", "none", <<>>)
        /\ UNCHANGED <<storeVars, adminVars, authVars, sessVars, dashVars, restVars>>

\* the AdminManager has not been initialized
NoAdminManager ==
    /\ adminVariant = "part_002"
    /\ adminDb = FALSE
    /\ adminUsers = {}
    /\ adminListening = FALSE
    /\ adminOps = EmptyBag

\* the session of a signed-in principal whose role has been resolved from
\* the admin registry
SignedIn ==
    /\ accounts = Uids
    /\ users = [u \in Uids |-> "user"]
    /\ admins = IF isAdmin THEN {currentUser} ELSE {}
    /\ authVariant = "part_001"
    /\ fbUser = currentUser
    /\ lastNotified = currentUser
    /\ lookups = EmptyBag
    /\ userRole = IF isAdmin THEN "admin" ELSE "user"
    /\ NoAdminManager
    /\ now = [sec |-> NowBase, ms |-> 0]
    /\ authStateCallbacks = <<>>
    /\ subscribed = TRUE

\* a signed-in principal with its role resolved, the dashboard constructed
\* (devicesData = {} and userDevices = {}) and subscribed
InitView ==
    /\ devices \in {EmptyMap,
                    Put(EmptyMap, "ESP32_A",
                        Device("a@x.com", NoRelays, {}))}
    /\ currentUser \in Uids
    /\ isAdmin \in BOOLEAN
    /\ SignedIn
    /\ dashVariant \in DashVariants
    /\ devicesData = EmptyMap
    /\ userDevices = EmptyMap
    /\ toggles = EmptyBag
    /\ last = Did("init", "", 0, <<>>, "", "none", <<>>)

NextView == SnapshotDelivered \/ ProvisionDevice

SpecView == InitView /\ [][NextView]_vars

\* C1: after a snapshot has been filtered for a signed-in principal,
\* userDevices holds exactly the devices of the collection for which the
\* principal is admin or whose owner_email equals the principal's e-mail,
\* each with the record it has in the collection: none more, none fewer.
C1_FilterExact ==
    (last.op = "snapshot" /\ currentUser # Null) =>
        /\ DOMAIN userDevices =
               {d \in DOMAIN devicesData :
                    isAdmin \/ devicesData[d].owner_email = EmailOf(currentUser)}
        /\ \A d \in DOMAIN userDevices : userDevices[d] = devicesData[d]

\* a non-admin's view that keeps its own device and leaves another one out
C1_Witness ==
    /\ last.op = "snapshot"
    /\ ~isAdmin
    /\ DOMAIN devicesData = DeviceIds
    /\ Cardinality(DOMAIN userDevices) = 1

\* C15: a device whose owner_email is absent is never in the view of a
\* non-admin principal, whatever the principal's e-mail is, a principal
\* without e-mail included.
C15_OwnerlessHidden ==
    (last.op = "snapshot" /\ currentUser # Null /\ ~isAdmin) =>
        \A d \in DOMAIN devicesData :
            devicesData[d].owner_email = Undefined => d \notin DOMAIN userDevices

\* a principal without e-mail has received a snapshot that holds a device
\* without owner_email
C15_Witness ==
    /\ last.op = "snapshot"
    /\ ~isAdmin
    /\ currentUser # Null
    /\ EmailOf(currentUser) = Null
    /\ \E d \in DOMAIN devicesData :
           /\ devicesData[d].owner_email = Undefined
           /\ d \notin DOMAIN userDevices

\* ------------------------------------------------------------------------
\* parseInt
\* ------------------------------------------------------------------------
\* the value of a digit character in the given radix, or -1
DigitVal(c, radix) ==
    LET v == CASE c = "0" -> 0 [] c = "1" -> 1 [] c = "2" -> 2 [] c = "3" -> 3
               [] c = "4" -> 4 [] c = "5" -> 5 [] c = "6" -> 6 [] c = "7" -> 7
               [] c = "8" -> 8 [] c = "9" -> 9 [] c = "a" -> 10 [] c = "f" -> 15
               [] OTHER -> -1
    IN IF v < radix THEN v ELSE -1

\* the index of the first character at or after i that is not white space
RECURSIVE SkipWhite(_, _)
SkipWhite(s, i) ==
    IF i <= Len(s) /\ s[i] = " " THEN SkipWhite(s, i + 1) ELSE i

\* the longest run of digits from i on: how many there are and their value
RECURSIVE DigitRun(_, _, _, _, _)
DigitRun(s, i, radix, count, acc) ==
    IF i <= Len(s) /\ DigitVal(s[i], radix) >= 0
    THEN DigitRun(s, i + 1, radix, count + 1,
                  acc * radix + DigitVal(s[i], radix))
    ELSE [count |-> count, value |-> acc]

\* parseInt(string) without a radix: leading white space, an optional sign,
\* an optional 0x prefix, then digits up to the first other character; NaN
\* when there is no digit
parseInt(s) ==
    LET i0 == SkipWhite(s, 1)
        signed == i0 <= Len(s) /\ s[i0] \in {"+", "-"}
        negative == signed /\ s[i0] = "-"
        i1 == IF signed THEN i0 + 1 ELSE i0
        hex == i1 + 1 <= Len(s) /\ s[i1] = "0" /\ s[i1 + 1] = "x"
        radix == IF hex THEN 16 ELSE 10
        i2 == IF hex THEN i1 + 2 ELSE i1
        run == DigitRun(s, i2, radix, 0, 0)
    IN [nan |-> run.count = 0,
        value |-> IF negative THEN 0 - run.value ELSE run.value]

\* the brightness arguments tried: the slider's string value or a number,
\* which parseInt first converts to its decimal string
BrightnessInputs ==
    { <<"0">>, <<"4", "0">>, <<"1", "0", "0">>, <<"1", "5", "0">>,
      <<"-", "1">>, <<" ", "4", "0", ".", "5">>, <<"0", "x", "2", "8">>,
      <<"a">>, <<>> }

\* ------------------------------------------------------------------------
\* Command dispatcher
\* ------------------------------------------------------------------------
\* this.devicesData[deviceId]?.data?.relays?.[relayId]?.state
CachedRelay(d, i) ==
    IF d \in DOMAIN devicesData THEN devicesData[d].relays[i] ELSE "absent"

\* a bug that writes the state read instead of its negation
Negated_Same(state) == IF state = "true" THEN "true" ELSE "false"

\* !(state || false)
Negated(state) == IF state = "true" THEN "false" ELSE "true"

\* a bug that issues the write again when it has failed
SetRelay_Retries(op, d, i, cur, arg) ==
    \E ok \in BOOLEAN :
        /\ devices' = IF ok THEN [devices EXCEPT ![d].relays[i] = Negated(cur)]
                      ELSE devices
        /\ last' = Did(op, d, i, arg, cur,
                       IF ok THEN "none" ELSE "RemoteError",
                       IF ok THEN <<Write(RelayPath, d, i, Negated(cur), 0)>>
                       ELSE <<Write(RelayPath, d, i, Negated(cur), 0),
                              Write(RelayPath, d, i, Negated(cur), 0)>>)

\* a bug that builds the path from relayId + 1, the number shown to the user
SetRelay_OffByOne(op, d, i, cur, arg) ==
    \E ok \in BOOLEAN :
        /\ devices' = IF ok
                      THEN [devices EXCEPT ![d].relays[(i + 1) % 2] = Negated(cur)]
                      ELSE devices
        /\ last' = Did(op, d, i, arg, cur,
                       IF ok THEN "none" ELSE "RemoteError",
                       <<Write(RelayPath, d, (i + 1) % 2, Negated(cur), 0)>>)

\* relayRef.set(value): the write is issued and either lands or fails; arg
\* says which client made the call and whether it raced (see ToggleRead)
SetRelay(op, d, i, cur, arg) ==
    \E ok \in BOOLEAN :
        /\ devices' = IF ok THEN [devices EXCEPT ![d].relays[i] = Negated(cur)]
                      ELSE devices
        /\ last' = Did(op, d, i, arg, cur,
                       IF ok THEN "none" ELSE "RemoteError",
                       <<Write(RelayPath, d, i, Negated(cur), 0)>>)

\* a call of this client that comes right after a call of this client on
\* the same relay is marked as a repeated call
Repeated(d, i) ==
    IF /\ last.op = "toggleRelay" /\ last.key = d /\ last.idx = i
       /\ last.arg \in {<<>>, <<"again">>}
    THEN <<"again">> ELSE <<>>

\* a bug that updates the cached state without waiting for the snapshot
ToggleRelay_Cached_Optimistic ==
    /\ dashVariant = "dash164"
    /\ \E d \in DOMAIN devices, i \in RelayIds :
           /\ SetRelay("toggleRelay", d, i, CachedRelay(d, i), Repeated(d, i))
           /\ devicesData' =
                  IF d \in DOMAIN devicesData
                  THEN [devicesData EXCEPT
                            ![d].relays[i] = Negated(CachedRelay(d, i))]
                  ELSE devicesData
    /\ UNCHANGED <<storeVars, adminVars, authVars, sessVars, restVars, dashVariant,
                   userDevices, toggles>>

\* toggleRelay of the variant at part_001:412: the current state is taken
\* from the cached snapshot
ToggleRelay_Cached ==
    /\ dashVariant = "dash164"
    /\ \E d \in DOMAIN devices, i \in RelayIds :
           SetRelay("toggleRelay", d, i, CachedRelay(d, i), Repeated(d, i))
    /\ UNCHANGED <<storeVars, adminVars, authVars, sessVars, restVars, dashVariant, devicesData,
                   userDevices, toggles>>

\* the toggleRelay calls of one client that are between their read and
\* their write
InFlight(client) ==
    BagCardinality([t \in {x \in BagToSet(toggles) : x.client = client} |->
                        toggles[t]])

\* toggleRelay of the variant at part_001:1000, up to its first await
\* completing: relayRef.once('value') returns the stored state, or fails and
\* the handler ends in its catch block.  The call is marked as raced when a
\* call of another client that has read the same state of the same relay
\* has not written yet.
ToggleRead(client) ==
    /\ InFlight(client) < MaxInFlight
    /\ \E d \in DOMAIN devices, i \in RelayIds, ok \in BOOLEAN :
           LET cur == devices[d].relays[i]
               raced == \E t \in BagToSet(toggles) :
                            /\ t.client # client
                            /\ t.dev = d /\ t.idx = i /\ t.cur = cur
           IN /\ toggles' = IF ok
                            THEN toggles (+) SetToBag({[dev |-> d, idx |-> i,
                                                        cur |-> cur,
                                                        client |-> client,
                                                        raced |-> raced]})
                            ELSE toggles
              /\ last' = Did("toggleRelay.read", d, i, <<>>,
                             IF ok THEN cur ELSE "",
                             IF ok THEN "none" ELSE "RemoteError", <<>>)

\* this client's call
ToggleRelay_Read ==
    /\ dashVariant = "dash749"
    /\ ToggleRead("here")
    /\ UNCHANGED <<devices, storeVars, adminVars, authVars, sessVars, restVars, dashVariant,
                   devicesData, userDevices>>

\* the same call made by another principal on another client
ToggleRelay_ReadElsewhere ==
    /\ ToggleRead("elsewhere")
    /\ UNCHANGED <<devices, storeVars, adminVars, authVars, sessVars, restVars, dashVariant,
                   devicesData, userDevices>>

\* the rest of that toggleRelay: the negation of the state read is written
ToggleRelay_Write ==
    /\ \E t \in BagToSet(toggles) :
           /\ toggles' = toggles (-) SetToBag({t})
           /\ SetRelay("toggleRelay", t.dev, t.idx, t.cur,
                       (IF t.client = "here" THEN <<>> ELSE <<t.client>>)
                           \o (IF t.raced THEN <<"raced">> ELSE <<>>))
    /\ UNCHANGED <<storeVars, adminVars, authVars, sessVars, restVars, dashVariant, devicesData,
                   userDevices>>

\* setPwm (part_001:429 and part_001:1018): parseInt(brightness) is written;
\* the SDK refuses NaN before anything is sent
SetPwm ==
    /\ dashVariant \in {"dash164", "dash749"}
    /\ \E d \in DOMAIN devices, brightness \in BrightnessInputs :
           LET n == parseInt(brightness)
           IN IF n.nan
              THEN /\ last' = Did("setPwm", d, 0, brightness, "",
                                  "SetFailed", <<>>)
                   /\ UNCHANGED devices
              ELSE \E ok \in BOOLEAN :
                       /\ devices' = IF ok
                                     THEN [devices EXCEPT
                                               ![d].brightness = {n.value}]
                                     ELSE devices
                       /\ last' = Did("setPwm", d, 0, brightness, "",
                                      IF ok THEN "none" ELSE "RemoteError",
                                      <<Write(PwmPath, d, 0, "", n.value)>>)
    /\ UNCHANGED <<storeVars, adminVars, authVars, sessVars, restVars, dashVariant, devicesData,
                   userDevices, toggles>>

\* two provisioned devices, ESP32_A reporting its relays and ESP32_B not yet;
\* the owner of one of them, or an admin, signed in with a fresh dashboard
InitCmd ==
    /\ devices = [d \in DeviceIds |->
                     IF d = "ESP32_A"
                     THEN Device("a@x.com",
                                 [i \in RelayIds |->
                                      IF i = 0 THEN "false" ELSE "true"], {})
                     ELSE Device("b@x.com", NoRelays, {})]
    /\ currentUser \in {"u1", "u2"}
    /\ isAdmin \in BOOLEAN
    /\ SignedIn
    /\ dashVariant \in {"dash164", "dash749"}
    /\ devicesData = EmptyMap
    /\ userDevices = EmptyMap
    /\ toggles = EmptyBag
    /\ last = Did("init", "", 0, <<>>, "", "none", <<>>)

NextRelay ==
    \/ SnapshotDelivered
    \/ ToggleRelay_Cached
    \/ ToggleRelay_Read
    \/ ToggleRelay_Write

SpecRelay == InitCmd /\ [][NextRelay]_vars

\* the same devices, with the owner of ESP32_A signed in
InitPwm ==
    /\ InitCmd
    /\ currentUser = "u1"

NextPwm == SnapshotDelivered \/ SetPwm

SpecPwm == InitPwm /\ [][NextPwm]_vars

\* a completed command whose caller is neither admin nor, by the latest
\* cached snapshot, the owner of the target device
UnauthorizedCommand ==
    /\ last.op \in {"toggleRelay", "setPwm"}
    /\ ~isAdmin
    /\ last.key \in DOMAIN devicesData
    /\ devicesData[last.key].owner_email # EmailOf(currentUser)

\* C2: toggleRelay and setPwm called by a principal that is not admin and
\* does not own the target device in the latest cached snapshot fail with
\* an authorization error and issue no remote write.
C2_UnauthorizedRejected ==
    UnauthorizedCommand =>
        (last.err = "AuthorizationError" /\ last.writes = <<>>)

\* C3: setPwm with a value outside 0..100 fails with a validation error and
\* issues no remote write; with an integer from 0 to 100 it is not rejected
\* and writes that value to devices/{id}/data/pwm/brightness.
C3_BrightnessValidated ==
    (last.op = "setPwm" /\ ~parseInt(last.arg).nan) =>
        LET n == parseInt(last.arg).value
        IN IF n \in 0..100
           THEN /\ last.err # "ValidationError"
                /\ last.writes = <<Write(PwmPath, last.key, 0, "", n)>>
                /\ last.err = "none" => devices[last.key].brightness = {n}
           ELSE /\ last.err = "ValidationError"
                /\ last.writes = <<>>

\* C4 as stated: the state that toggleRelay negates is the relay's state in
\* the latest cached snapshot.
C4_NegatesCachedState ==
    (last.op = "toggleRelay" /\ last.key \in DOMAIN devicesData) =>
        last.writes =
            <<Write(RelayPath, last.key, last.idx,
                    IF CachedRelay(last.key, last.idx) = "true"
                    THEN "false" ELSE "true", 0)>>

\* C4 (amended): toggleRelay issues one write, to
\* devices/{deviceId}/data/relays/{relayIndex}/state, of the negation of the
\* state it read, true when that state is false or absent; the variant at
\* part_001:412 reads the state from the cached snapshot, the variant at
\* part_001:1000 reads it from the remote store.
C4_ToggleWritesNegation ==
    /\ (last.op = "toggleRelay.read" /\ last.err = "none") =>
           /\ dashVariant = "dash749"
           /\ last.cur = devices[last.key].relays[last.idx]
           /\ last.writes = <<>>
    /\ last.op = "toggleRelay" =>
           /\ last.writes =
                  <<Write(RelayPath, last.key, last.idx,
                          IF last.cur = "true" THEN "false" ELSE "true", 0)>>
           /\ dashVariant = "dash164" =>
                  last.cur = CachedRelay(last.key, last.idx)
           /\ last.err = "none" =>
                  devices[last.key].relays[last.idx] = last.writes[1].sval

\* the remote-reading variant turns on a relay that the stale cache shows
\* as already on
C4_Witness ==
    /\ last.op = "toggleRelay"
    /\ last.err = "none"
    /\ dashVariant = "dash749"
    /\ last.key \in DOMAIN devicesData
    /\ last.cur = "false"
    /\ CachedRelay(last.key, last.idx) = "true"
    /\ devices[last.key].relays[last.idx] = "true"

\* ------------------------------------------------------------------------
\* Session store
\* ------------------------------------------------------------------------
SignOutRequest == "auth.signOut()"

\* userRole as handleUserSignOut leaves it (auth.js:68, part_001:79)
SignedOutRole(variant) == IF variant = "auth.js" THEN "user" ELSE Null

\* a bug that never takes the role from the users record
RoleOrDefault_AlwaysUser(rec) == "user"

\* userData?.role || 'user'
RoleOrDefault(rec) == IF rec \in Roles THEN rec ELSE "user"

\* a bug in the catch block that forgets to clear isAdmin
LookupErrorEffect_KeepsAdmin(adm) == [role |-> "user", adm |-> adm]

\* the catch block of a failed role lookup: this.userRole = 'user';
\* this.isAdmin = false (auth.js:60, part_001:72)
LookupErrorEffect(adm) == [role |-> "user", adm |-> FALSE]

\* this.authStateCallbacks.forEach(callback => callback(user)): one
\* invocation per registered callback, in the order of registration
CallbackInvoked == "callback(user)"
Invocations(user) ==
    IF authStateCallbacks = <<>> THEN <<>>
    ELSE [i \in 1..Len(authStateCallbacks) |->
              Write(CallbackInvoked, authStateCallbacks[i], 0, user, 0)]

\* signIn: signInWithEmailAndPassword accepts or rejects the credentials
SignIn ==
    \E u \in accounts, ok \in BOOLEAN :
        /\ fbUser' = IF ok THEN u ELSE fbUser
        /\ last' = Did("signIn", u, 0, <<>>, "",
                       IF ok THEN "none" ELSE "AuthError", <<>>)
        /\ UNCHANGED <<devices, storeVars, adminVars, authVariant, lastNotified, lookups,
                       sessVars, dashVars, restVars>>

\* a bug in handleUserSignOut that forgets to clear isAdmin
HandleUserSignOut_KeepsAdmin(variant, adm) ==
    [user |-> Null, role |-> SignedOutRole(variant), adm |-> adm]

\* handleUserSignOut: this.currentUser = null; this.userRole = ...;
\* this.isAdmin = false
HandleUserSignOut(variant, adm) ==
    [user |-> Null, role |-> SignedOutRole(variant), adm |-> FALSE]

\* signOut: await this.auth.signOut(), which resolves whether or not a user
\* is signed in.  A call made right after the sign-out of a user has been
\* handled is marked as a repeated call.
SignOut ==
    /\ fbUser' = Null
    /\ last' = Did("signOut", "", 0,
                   IF last.op = "handleUserSignOut" /\ last.cur \in Uids
                   THEN <<"again">> ELSE <<>>,
                   "", "none",
                   <<Write(SignOutRequest, "", 0, "", 0)>>)
    /\ UNCHANGED <<devices, storeVars, adminVars, authVariant, lastNotified, lookups,
                   sessVars, dashVars, restVars>>

\* the onAuthStateChanged listener, called when the signed-in user differs
\* from the one it was last called with.  With a user it runs
\* handleUserSignIn up to the first await of the role lookup; with null it
\* runs handleUserSignOut.
AuthStateChanged ==
    /\ lastNotified # fbUser
    /\ lastNotified' = fbUser
    /\ IF fbUser # Null
       THEN /\ BagCardinality(lookups) < MaxLookups
            /\ currentUser' = fbUser
            /\ lookups' = lookups (+) SetToBag({[kind |-> "signin",
                                                 uid |-> fbUser,
                                                 stage |-> "admins"]})
            /\ last' = Did("handleUserSignIn", fbUser, 0, <<>>, "", "none",
                           <<>>)
            /\ UNCHANGED <<userRole, isAdmin>>
       ELSE /\ LET s == HandleUserSignOut(authVariant, isAdmin)
               IN /\ currentUser' = s.user
                  /\ userRole' = s.role
                  /\ isAdmin' = s.adm
            /\ last' = Did("handleUserSignOut", "", 0, <<>>, lastNotified,
                           "none", Invocations(Null))
            /\ UNCHANGED lookups
    /\ UNCHANGED <<devices, storeVars, adminVars, authVariant, fbUser, dashVars, restVars>>

\* the onIdTokenChanged listener of part_000:51: with a user and a current
\* user it starts another role lookup
IdTokenChanged ==
    /\ authVariant = "part_000"
    /\ fbUser # Null
    /\ currentUser # Null
    /\ BagCardinality(lookups) < MaxLookups
    /\ lookups' = lookups (+) SetToBag({[kind |-> "token", uid |-> fbUser,
                                         stage |-> "admins"]})
    /\ last' = Did("idTokenChanged", fbUser, 0, <<>>, "", "none", <<>>)
    /\ UNCHANGED <<devices, storeVars, adminVars, authVariant, fbUser, lastNotified,
                   sessVars, dashVars, restVars>>

\* a role lookup has finished with the given role and admin flag; for a
\* sign-in, handleUserSignIn goes on to showDashboard, which reads
\* this.currentUser.email and throws when no user is current: the catch
\* block of auth.js:58 and part_000:72 then demotes to user, the catch block
\* of part_001:50 calls this.signOut().  The catch block of auth.js calls
\* showDashboard again, which throws out of handleUserSignIn, so that the
\* listener of auth.js:28 reaches its forEach only when nothing has thrown.
LookupFinished(l, op, role, adm) ==
    LET throws == l.kind = "signin" /\ currentUser = Null
        demotes == throws /\ authVariant \in {"auth.js", "part_000"}
        signsOut == throws /\ authVariant = "part_001"
    IN /\ lookups' = lookups (-) SetToBag({l})
       /\ userRole' = IF demotes THEN "user" ELSE role
       /\ isAdmin' = IF demotes THEN FALSE ELSE adm
       /\ fbUser' = IF signsOut THEN Null ELSE fbUser
       /\ last' = Did(op, l.uid, 0, <<>>, l.kind,
                      IF throws THEN "TypeError" ELSE "none",
                      IF signsOut
                      THEN <<Write(SignOutRequest, "", 0, "", 0)>>
                      ELSE IF l.kind = "signin" /\ ~throws
                           THEN Invocations(l.uid)
                           ELSE <<>>)
       /\ UNCHANGED <<devices, storeVars, adminVars, authVariant, lastNotified,
                      currentUser, dashVars, restVars>>

\* admins/{uid}.once('value') returns.  auth.js:53 derives both fields from
\* it; loadUserRole (part_001:60) sets isAdmin and, for a non-admin, goes on
\* to read users/{uid}
AdminsLookupDone ==
    \E l \in BagToSet(lookups) :
        /\ l.stage = "admins"
        /\ LET exists == l.uid \in admins
           IN IF authVariant = "auth.js"
              THEN LookupFinished(l, "roleResolved",
                                  IF exists THEN "admin" ELSE "user", exists)
              ELSE IF exists
                   THEN LookupFinished(l, "roleResolved", "admin", TRUE)
                   ELSE /\ isAdmin' = FALSE
                        /\ lookups' = (lookups (-) SetToBag({l})) (+)
                               SetToBag({[l EXCEPT !.stage = "users"]})
                        /\ last' = Did("rolePending", l.uid, 0, <<>>, l.kind,
                                       "none", <<>>)
                        /\ UNCHANGED <<devices, storeVars, adminVars, authVariant,
                                       fbUser, lastNotified, currentUser,
                                       userRole, dashVars, restVars>>

\* users/{uid}.once('value') returns (part_001:66-68)
UsersLookupDone ==
    \E l \in BagToSet(lookups) :
        /\ l.stage = "users"
        /\ LookupFinished(l, "roleResolved", RoleOrDefault(users[l.uid]),
                          isAdmin)

\* either read of a role lookup fails
LookupFailed ==
    \E l \in BagToSet(lookups) :
        LET e == LookupErrorEffect(isAdmin)
        IN LookupFinished(l, "roleFailed", e.role, e.adm)

\* the page is loaded, the listeners are registered and have not run yet;
\* the identity service may hold a persisted session
InitSession ==
    /\ devices = EmptyMap
    /\ accounts = {"u1", "u2"}
    /\ \E a \in SUBSET {"u1"}, b \in {"admin-only", "plain"} :
           /\ admins = a \cup (IF b = "admin-only" THEN {"u2"} ELSE {})
           /\ \E r \in UserRecs :
                  users = [u \in Uids |->
                              CASE u = "u1" -> r
                                [] u = "u2" -> IF b = "plain" THEN "user"
                                               ELSE "absent"
                                [] OTHER -> "absent"]
    /\ authVariant \in AuthVariants
    /\ fbUser \in {Null, "u1"}
    /\ lastNotified = "unset"
    /\ lookups = EmptyBag
    /\ currentUser = Null
    /\ userRole = SignedOutRole(authVariant)
    /\ isAdmin = FALSE
    /\ NoAdminManager
    /\ now = [sec |-> NowBase, ms |-> 0]
    /\ authStateCallbacks = <<>>
    /\ subscribed = FALSE
    /\ dashVariant = "dash749"
    /\ devicesData = EmptyMap
    /\ userDevices = EmptyMap
    /\ toggles = EmptyBag
    /\ last = Did("init", "", 0, <<>>, "", "none", <<>>)

NextSession ==
    \/ SignIn
    \/ SignOut
    \/ AuthStateChanged
    \/ IdTokenChanged
    \/ AdminsLookupDone
    \/ UsersLookupDone
    \/ LookupFailed

SpecSession == InitSession /\ [][NextSession]_vars

\* C16: when the listener has handled a sign-out, currentUser is none and
\* isAdmin is false; a signOut called in that state, with no user signed in
\* and the transition handled, changes nothing of the session state.
C16_SignOutIdempotent ==
    [][/\ (last'.op = "handleUserSignOut") =>
              (currentUser' = Null /\ ~isAdmin')
       /\ (last'.op = "signOut" /\ fbUser = Null /\ lastNotified = Null) =>
              UNCHANGED <<sessVars, fbUser, lastNotified, lookups>>]_vars

\* signOut has been called again right after the sign-out of a user was
\* handled
C16_Witness ==
    /\ last.op = "signOut"
    /\ last.arg = <<"again">>
    /\ fbUser = Null
    /\ lastNotified = Null
    /\ currentUser = Null
    /\ ~isAdmin

\* C19: when signIn has returned success, the role of the principal that
\* signed in is resolved: it is the current user, none of its role lookups
\* is pending, and isAdmin and userRole agree with the admin registry.
C19_SignInResolvesRole ==
    (last.op = "signIn" /\ last.err = "none") =>
        /\ currentUser = last.key
        /\ \A l \in BagToSet(lookups) : l.uid # last.key
        /\ isAdmin = (last.key \in admins)
        /\ (userRole = "admin") = (last.key \in admins)

\* onAuthStateChanged(callback) of auth.js:125: the callback is pushed
CallbackNames == {"cb1", "cb2"}
OnAuthStateChanged ==
    \E callback \in CallbackNames :
        /\ authVariant = "auth.js"
        /\ Len(authStateCallbacks) < MaxCallbacks
        /\ authStateCallbacks' = Append(authStateCallbacks, callback)
        /\ last' = Did("onAuthStateChanged", callback, 0, <<>>, "", "none",
                       <<>>)
        /\ UNCHANGED <<devices, storeVars, adminVars, authVars, sessVars, dashVars, now, subscribed>>

\* the page of auth.js is loaded
InitCallbacks ==
    /\ InitSession
    /\ authVariant = "auth.js"

NextCallbacks ==
    \/ OnAuthStateChanged
    \/ SignIn
    \/ SignOut
    \/ AuthStateChanged
    \/ AdminsLookupDone
    \/ LookupFailed

SpecCallbacks == InitCallbacks /\ [][NextCallbacks]_vars

\* the listener has finished handling a transition: a sign-out, or a
\* sign-in whose role lookup has ended
TransitionHandled ==
    \/ last.op = "handleUserSignOut"
    \/ last.op \in {"roleResolved", "roleFailed"} /\ last.cur = "signin"

\* C17: when the listener has finished handling a sign-in or a sign-out,
\* every callback registered by then has been invoked for it; for a sign-in
\* no callback is invoked before its role resolution has ended.
C17_CallbacksNotified ==
    /\ TransitionHandled =>
           \A i \in 1..Len(authStateCallbacks) :
               \E j \in 1..Len(last.writes) :
                   /\ last.writes[j].path = CallbackInvoked
                   /\ last.writes[j].key = authStateCallbacks[i]
    /\ last.op = "handleUserSignIn" => last.writes = <<>>

\* the role that users/{id} gives: its role field, user when the record or
\* the field is absent
DirectoryRole(u) == IF users[u] \in {"user", "admin"} THEN users[u] ELSE "user"

C6_FailedLookupDemotes ==
    [][ /\ last'.op = "roleFailed" => ~isAdmin'
        /\ (last'.op = "roleFailed" /\ last'.cur = "signin"
                /\ currentUser # Null) =>
               /\ currentUser' = currentUser
               /\ fbUser' = fbUser
               /\ last'.writes = <<>>
               /\ userRole' = "user"
               /\ ~isAdmin' ]_vars

\* a registered admin whose sign-in lookup failed: signed in, role user
C6_Witness ==
    /\ last.op = "roleFailed"
    /\ last.cur = "signin"
    /\ currentUser = last.key
    /\ fbUser = last.key
    /\ last.key \in admins
    /\ userRole = "user"
    /\ ~isAdmin

\* ------------------------------------------------------------------------
\* User administration
\* ------------------------------------------------------------------------
AccountRequest == "auth.createUserWithEmailAndPassword()"
UsersPath == "users/{id}"
UsersRolePath == "users/{id}/role"
LastModifiedPath == "users/{id}/lastModified"
ModifiedByPath == "users/{id}/modifiedBy"
AdminsPath == "admins/{id}"
AdminsRemoval == "admins/{id}.remove()"
UsersRemoval == "users/{id}.remove()"

\* the id the identity service gives the account that createUser creates
NewUid == "u3"
\* the ids that updateUserRole is called with
TargetUids == {"u2"}

\* a call suspended at the await named by stage; issued are the requests it
\* has sent so far, keys the ids of the users snapshot that loadAllUsers holds,
\* after what the call was made right after (see CalledAfter)
AdminOp(op, impl, stage, uid, role, issued) ==
    [op |-> op, impl |-> impl, stage |-> stage, uid |-> uid, role |-> role,
     keys |-> {}, issued |-> issued, after |-> ""]

\* the last step was the successful end of a call of updateUserRole(uid,
\* role) that was made in the situation named by tag
JustCompleted(uid, role, tag) ==
    /\ last.op = "updateUserRole"
    /\ last.key = uid
    /\ last.cur = role
    /\ last.err = "none"
    /\ last.arg[2] = "done"
    /\ Len(last.arg) = 3
    /\ last.arg[3] = tag

\* the situation a call is made in: a demotion of an id that is in the admin
\* registry, a promotion made right after such a demotion of the same id has
\* completed, a deletion of an id that has both of its records
CalledAfter(op, uid, role) ==
    IF op = "deleteUser"
    THEN (IF uid \in admins /\ users[uid] # "absent" THEN "registered"
          ELSE "")
    ELSE IF op # "updateUserRole" THEN ""
    ELSE IF role = "user" THEN (IF uid \in admins THEN "registered" ELSE "")
    ELSE IF JustCompleted(uid, "user", "registered") THEN "demotion"
    ELSE ""

\* the stage a step of a call has passed, whether the call goes on, and the
\* situation the call was made in
StepOf(stage, status, after) ==
    <<stage, status>> \o (IF after = "" THEN <<>> ELSE <<after>>)

\* the reads of loadAllUsers (part_002:99-100) and loadSystemData
\* (admin.js:30), whose errors their own catch blocks swallow
ReloadStages == {"stats", "reload", "reloadUsers", "reloadAdmins"}

\* the first await of the user list refresh that ends a call
ReloadStage(impl) == IF impl = "admin.js" THEN "reload" ELSE "reloadUsers"

\* a bug that lets anyone create users
CreateUserAllowed_Anyone(adm) == TRUE

\* if (!this.isAdmin) throw (auth.js:93, part_001:105, part_002:30)
CreateUserAllowed(adm) == adm

\* the await that follows the one the call is suspended at
StageAfter(o) ==
    CASE o.op = "updateUserRole" /\ o.stage = "role" ->
             IF o.impl = "part_002" THEN "lastModified" ELSE "admins"
      [] o.op = "updateUserRole" /\ o.stage = "lastModified" -> "modifiedBy"
      [] o.op = "updateUserRole" /\ o.stage = "modifiedBy" -> "admins"
      [] o.op = "updateUserRole" /\ o.stage = "admins" -> ReloadStage(o.impl)
      [] o.op = "createUser" /\ o.stage = "account" -> "users"
      [] o.op = "createUser" /\ o.stage = "users" ->
             IF o.role = "admin" /\ o.impl # "part_001" THEN "admins"
             ELSE IF o.impl = "part_002" THEN "reloadUsers" ELSE "end"
      [] o.op = "createUser" /\ o.stage = "admins" ->
             IF o.impl = "part_002" THEN "reloadUsers" ELSE "end"
      [] o.op = "deleteUser" /\ o.stage = "users" -> "admins"
      [] o.op = "deleteUser" /\ o.stage = "admins" -> "reloadUsers"
      [] o.stage = "stats" -> "reloadUsers"
      [] o.stage = "reloadUsers" -> "reloadAdmins"
      [] OTHER -> "end"

\* the request sent on reaching a stage
Issued(o, stage) ==
    CASE stage = "account" -> <<Write(AccountRequest, o.uid, 0, o.role, 0)>>
      [] o.op = "createUser" /\ stage = "users" ->
             <<Write(UsersPath, o.uid, 0, o.role, 0)>>
      [] o.op = "deleteUser" /\ stage = "users" ->
             <<Write(UsersRemoval, o.uid, 0, "", 0)>>
      [] stage = "role" -> <<Write(UsersRolePath, o.uid, 0, o.role, 0)>>
      [] stage = "lastModified" -> <<Write(LastModifiedPath, o.uid, 0, "", 0)>>
      [] stage = "modifiedBy" -> <<Write(ModifiedByPath, o.uid, 0, "", 0)>>
      [] stage = "admins" ->
             IF o.role = "admin"
             THEN <<Write(AdminsPath, o.uid, 0, "admin", 0)>>
             ELSE <<Write(AdminsRemoval, o.uid, 0, "", 0)>>
      [] OTHER -> <<>>

\* building the request of a stage throws a TypeError: currentUser.uid with
\* no current user, this.users[uid].email for an id that is not in
\* this.users, this.db.ref with db unset
Throws(o, stage) ==
    CASE o.op = "createUser" /\ stage = "users" ->
             currentUser = Null \/ (o.impl = "part_002" /\ ~adminDb)
      [] o.op = "createUser" /\ stage = "admins" ->
             o.impl = "part_002" /\ currentUser = Null
      [] o.op = "updateUserRole" /\ stage = "modifiedBy" -> currentUser = Null
      [] o.op = "updateUserRole" /\ stage = "admins" ->
             o.role = "admin" /\
                 (o.uid \notin adminUsers \/
                      (o.impl = "part_002" /\ currentUser = Null))
      [] stage \in ReloadStages -> ~adminDb
      [] OTHER -> FALSE

\* where the call goes on reaching a stage, and the error it ends with
Enter(o, stage) ==
    IF stage = "end" THEN [go |-> "end", err |-> "none"]
    ELSE IF stage \in ReloadStages
    THEN IF Throws(o, stage) \/ (o.impl = "part_002" /\ ~isAdmin)
         THEN [go |-> "end", err |-> "none"]
         ELSE [go |-> stage, err |-> "none"]
    ELSE IF Throws(o, stage) THEN [go |-> "end", err |-> "TypeError"]
    ELSE [go |-> stage, err |-> "none"]

\* the ids with a users record
UserKeys == {u \in Uids : users[u] # "absent"}

\* a bug that never adds the registry entry
RegistryAfter_NeverAdds(registry, uid, role) == registry \ {uid}

\* admins/{uid}.set(...) for the admin role, admins/{uid}.remove() otherwise
\* (admin.js:223-234, part_002:151-163)
RegistryAfter(registry, uid, role) ==
    IF role = "admin" THEN registry \cup {uid} ELSE registry \ {uid}

\* what the request awaited at the call's stage does when it succeeds
Effect(o) ==
    LET same == [users |-> users, admins |-> admins, accounts |-> accounts,
                 fbUser |-> fbUser, adminUsers |-> adminUsers, keys |-> o.keys]
    IN CASE o.stage = "account" ->
                [same EXCEPT !.accounts = @ \cup {o.uid}, !.fbUser = o.uid]
         [] o.op = "deleteUser" /\ o.stage = "users" ->
                [same EXCEPT !.users = [users EXCEPT ![o.uid] = "absent"]]
         [] o.op # "deleteUser" /\ o.stage \in {"users", "role"} ->
                [same EXCEPT !.users = [users EXCEPT ![o.uid] = o.role]]
         [] o.stage \in {"lastModified", "modifiedBy"} ->
                [same EXCEPT !.users =
                    [users EXCEPT ![o.uid] =
                         IF @ = "absent" THEN "norole" ELSE @]]
         [] o.stage = "admins" ->
                [same EXCEPT !.admins = RegistryAfter(@, o.uid, o.role)]
         [] o.stage = "reloadUsers" -> [same EXCEPT !.keys = UserKeys]
         [] o.stage = "reloadAdmins" ->
                [same EXCEPT !.adminUsers = o.keys \cup admins]
         [] o.stage = "reload" ->
                [same EXCEPT !.adminUsers = UserKeys \cup admins]
         [] OTHER -> same

\* a bug that ignores the failure of a request and goes on
Failed_GoesOn(o) == Enter(o, StageAfter(o))

\* the request a call awaits fails: the call ends in its catch block, which
\* returns a failure result; the catch blocks of the reloads only log
Failed(o) ==
    [go |-> "end",
     err |-> IF o.stage \in ReloadStages THEN "none" ELSE "RemoteError"]

\* the request a call awaits completes; the call runs on to its next await
\* or to its end
AdminStep ==
    \E o \in BagToSet(adminOps), ok \in BOOLEAN :
        LET accepted == ok /\ (o.stage = "account" => o.uid \notin accounts)
            eff == IF accepted THEN Effect(o)
                   ELSE [users |-> users, admins |-> admins,
                         accounts |-> accounts, fbUser |-> fbUser,
                         adminUsers |-> adminUsers, keys |-> o.keys]
            res == IF accepted THEN Enter(o, StageAfter(o)) ELSE Failed(o)
            o2 == [o EXCEPT !.stage = res.go, !.keys = eff.keys,
                            !.issued = @ \o Issued(o, res.go)]
        IN /\ users' = eff.users
           /\ admins' = eff.admins
           /\ accounts' = eff.accounts
           /\ fbUser' = eff.fbUser
           /\ adminUsers' = eff.adminUsers
           /\ adminOps' = (adminOps (-) SetToBag({o})) (+)
                          (IF res.go = "end" THEN EmptyBag
                           ELSE SetToBag({o2}))
           /\ adminListening' =
                  IF res.go = "end" /\ o.op = "initialize" /\ adminDb
                        /\ (o.impl = "admin.js" \/ isAdmin)
                  THEN TRUE ELSE adminListening
           /\ last' = Did(o.op, o.uid, 0,
                          StepOf(o.stage,
                                 IF res.go = "end" THEN "done" ELSE "pending",
                                 o.after),
                          o.role, res.err, o2.issued)
           /\ UNCHANGED <<devices, authVariant, lastNotified, lookups,
                          sessVars, adminVariant, adminDb, dashVars, restVars>>

\* a call is made: it ends at once with the given error, or suspends at its
\* first await with its first request sent
Call(op, impl, uid, role, err, stage) ==
    LET o == AdminOp(op, impl, stage, uid, role, <<>>)
        started == [o EXCEPT !.issued = Issued(o, stage),
                             !.after = CalledAfter(op, uid, role)]
    IN /\ err = "none" => BagCardinality(adminOps) < MaxAdminOps
       /\ adminOps' = IF err = "none" THEN adminOps (+) SetToBag({started})
                      ELSE adminOps
       /\ last' = Did(op, uid, 0,
                      StepOf("call",
                             IF err = "none" THEN "pending" ELSE "done",
                             started.after),
                      role, err,
                      IF err = "none" THEN started.issued ELSE <<>>)

\* AuthManager.createUser (auth.js:92; part_001:104, which part_000 keeps)
CreateUser_Auth ==
    /\ \E role \in Roles :
           Call("createUser",
                IF authVariant = "auth.js" THEN "auth.js" ELSE "part_001",
                NewUid, role,
                IF CreateUserAllowed(isAdmin) THEN "none" ELSE "Unauthorized",
                "account")
    /\ UNCHANGED <<devices, storeVars, authVars, sessVars, adminVariant,
                   adminDb, adminUsers, adminListening, dashVars, restVars>>

\* AdminManager.createUser (part_002:29)
CreateUser_Admin ==
    /\ adminVariant = "part_002"
    /\ \E role \in Roles :
           Call("createUser", "part_002", NewUid, role,
                IF CreateUserAllowed(isAdmin) THEN "none" ELSE "Unauthorized",
                "account")
    /\ UNCHANGED <<devices, storeVars, authVars, sessVars, adminVariant,
                   adminDb, adminUsers, adminListening, dashVars, restVars>>

\* AdminManager.updateUserRole: part_002:137 refuses a caller that is not
\* admin, admin.js:218 has no such test; both then write users/{uid}/role
UpdateUserRole ==
    /\ \E uid \in TargetUids, role \in Roles :
           Call("updateUserRole", adminVariant, uid, role,
                IF adminVariant = "part_002" /\ ~isAdmin THEN "Unauthorized"
                ELSE IF ~adminDb THEN "TypeError"
                ELSE "none",
                "role")
    /\ UNCHANGED <<devices, storeVars, authVars, sessVars, adminVariant,
                   adminDb, adminUsers, adminListening, dashVars, restVars>>

\* a bug that lets anyone delete users
DeleteUserAllowed_Anyone(adm) == TRUE

\* if (!this.auth.isAdmin) throw (part_002:177)
DeleteUserAllowed(adm) == adm

\* AdminManager.deleteUser (part_002:176): users/{uid}.remove(), then
\* admins/{uid}.remove(), then loadAllUsers
DeleteUser ==
    /\ adminVariant = "part_002"
    /\ \E uid \in TargetUids :
           Call("deleteUser", "part_002", uid, "",
                IF ~DeleteUserAllowed(isAdmin) THEN "Unauthorized"
                ELSE IF ~adminDb THEN "TypeError"
                ELSE "none",
                "users")
    /\ UNCHANGED <<devices, storeVars, authVars, sessVars, adminVariant,
                   adminDb, adminUsers, adminListening, dashVars, restVars>>

\* AdminManager.initialize (admin.js:11, part_002:11): for an admin it sets
\* the database handle and loads the user list
AdminInitialize ==
    /\ isAdmin
    /\ ~adminDb
    /\ adminDb' = TRUE
    /\ Call("initialize", adminVariant, "", "", "none",
            IF adminVariant = "part_002" THEN "stats" ELSE "reload")
    /\ UNCHANGED <<devices, storeVars, authVars, sessVars, adminVariant,
                   adminUsers, adminListening, dashVars, restVars>>

\* the users listener of setupAdminListeners (admin.js:246, part_002:460)
\* reloads the user list
UsersChanged ==
    /\ adminListening
    /\ adminVariant = "part_002" => isAdmin
    /\ Call("reload", adminVariant, "", "", "none", ReloadStage(adminVariant))
    /\ UNCHANGED <<devices, storeVars, authVars, sessVars, adminVariant,
                   adminDb, adminUsers, adminListening, dashVars, restVars>>

\* the page is loaded with the accounts u1 and u2 and the given admin
\* registry and users directory in the remote store; a persisted session of
\* either account may be restored
PageLoaded(registry, directory) ==
    /\ devices = EmptyMap
    /\ accounts = {"u1", "u2"}
    /\ admins = registry
    /\ users = directory
    /\ \/ authVariant = "auth.js" /\ adminVariant = "admin.js"
       \/ authVariant \in {"part_000", "part_001"} /\ adminVariant = "part_002"
    /\ fbUser \in {"u1", "u2"}
    /\ lastNotified = "unset"
    /\ lookups = EmptyBag
    /\ currentUser = Null
    /\ userRole = SignedOutRole(authVariant)
    /\ isAdmin = FALSE
    /\ adminDb = FALSE
    /\ adminUsers = {}
    /\ adminListening = FALSE
    /\ adminOps = EmptyBag
    /\ dashVariant = "dash749"
    /\ devicesData = EmptyMap
    /\ userDevices = EmptyMap
    /\ now = [sec |-> NowBase, ms |-> 0]
    /\ authStateCallbacks = <<>>
    /\ subscribed = FALSE
    /\ toggles = EmptyBag
    /\ last = Did("init", "", 0, <<>>, "", "none", <<>>)

\* an admin u1 and a user u2 are registered
InitAdmin ==
    PageLoaded({"u1"},
               [u \in Uids |-> CASE u = "u1" -> "admin" [] u = "u2" -> "user"
                                  [] OTHER -> "absent"])

\* two admins u1 and u2 are registered
InitRoundTrip ==
    PageLoaded({"u1", "u2"},
               [u \in Uids |-> IF u \in {"u1", "u2"} THEN "admin"
                               ELSE "absent"])

\* the session is at rest: the auth listener has seen the current user and
\* no role lookup is pending, as when the admin panel is on screen
SessionSettled == lookups = EmptyBag /\ lastNotified = fbUser

\* user creation.  The user's own gestures are serialized: the panel's calls
\* are made from a settled session, sign-in and sign-out are requested
\* between calls.  The listeners, the role lookups and the requests of a
\* call interleave freely.
NextCreate ==
    \/ adminOps = EmptyBag /\ SignIn
    \/ adminOps = EmptyBag /\ fbUser # Null /\ SignOut
    \/ AuthStateChanged
    \/ IdTokenChanged
    \/ AdminsLookupDone
    \/ UsersLookupDone
    \/ LookupFailed
    \/ SessionSettled /\ AdminInitialize
    \/ SessionSettled /\ CreateUser_Auth
    \/ SessionSettled /\ CreateUser_Admin
    \/ AdminStep

SpecCreate == InitAdmin /\ [][NextCreate]_vars

\* role changes
NextRoles ==
    \/ SignIn
    \/ fbUser # Null /\ SignOut
    \/ AuthStateChanged
    \/ IdTokenChanged
    \/ AdminsLookupDone
    \/ UsersLookupDone
    \/ LookupFailed
    \/ AdminInitialize
    \/ UsersChanged
    \/ UpdateUserRole
    \/ AdminStep

SpecRoles == InitAdmin /\ [][NextRoles]_vars

\* the paths of the requests that the last step's call has sent
IssuedPaths == {last.writes[i].path : i \in DOMAIN last.writes}

\* C7: createUser called while the caller is not admin fails with an
\* authorization error before any identity-service call or remote write: the
\* call sends no request, stays out of the calls in flight and leaves the
\* accounts, users/{id} and admins/{id} as they were.
C7_NonAdminCreateRejected ==
    [][ (last'.op = "createUser" /\ last'.arg[1] = "call" /\ ~isAdmin) =>
            /\ last'.err = "Unauthorized"
            /\ last'.writes = <<>>
            /\ UNCHANGED <<storeVars, fbUser, adminOps>> ]_vars

\* a signed-in principal that is not admin has called createUser and was
\* refused; the account and both records of the new id are absent
C7_Witness ==
    /\ last.op = "createUser"
    /\ last.arg = <<"call", "done">>
    /\ last.err = "Unauthorized"
    /\ currentUser = "u2"
    /\ ~isAdmin
    /\ NewUid \notin accounts
    /\ users[NewUid] = "absent"
    /\ NewUid \notin admins


\* C24: when createUser's account has been created and its write of
\* users/{id} has not taken effect, the call has ended with a failure
\* result, the account is still there, and no admins/{id} entry has been
\* requested or written: an account with no role record is left.
C24_PartialCreateNotRolledBack ==
    (/\ last.op = "createUser"
     /\ last.arg[1] = "users"
     /\ users[last.key] = "absent") =>
        /\ last.arg[2] = "done"
        /\ last.err # "none"
        /\ last.key \in accounts
        /\ last.key \notin admins
        /\ AdminsPath \notin IssuedPaths

\* the write of users/{id} has failed in a createUser for the admin role
C24_Witness ==
    /\ last.op = "createUser"
    /\ last.arg = <<"users", "done">>
    /\ last.err = "RemoteError"
    /\ last.cur = "admin"
    /\ last.key \in accounts
    /\ users[last.key] = "absent"
    /\ IssuedPaths = {AccountRequest, UsersPath}

\* C8 as stated: a createUser that ends in success has written users/{newId},
\* and has written admins/{newId} exactly when the role is admin.
C8_CreateUserWritesRecords ==
    (last.op = "createUser" /\ last.arg[2] = "done" /\ last.err = "none") =>
        /\ UsersPath \in IssuedPaths
        /\ last.cur = "admin" <=> AdminsPath \in IssuedPaths

\* C9 as stated: updateUserRole called by a signed-in principal that is not
\* admin is rejected and sends no write to users/{id}/role and no write or
\* removal on admins/{id}.
C9_NonAdminRoleChangeRejected ==
    (/\ last.op = "updateUserRole"
     /\ last.arg[1] = "call"
     /\ currentUser # Null
     /\ ~isAdmin) =>
        /\ last.err # "none"
        /\ last.writes = <<>>

\* C10 as stated: no step of a demotion (newRole = user) takes the store
\* into a state where users/{id}/role is user while admins/{id} exists.
C10_DemotionRemovesRegistryFirst ==
    [][ (/\ last'.op = "updateUserRole"
         /\ last'.cur = "user"
         /\ ~(users[last'.key] = "user" /\ last'.key \in admins)) =>
            ~(users'[last'.key] = "user" /\ last'.key \in admins') ]_vars

\* a demotion and the promotion that follows it: the panel's calls are made
\* one after the other, each when the one before has ended; the session is
\* restored from the persisted one and its lookups interleave with the calls
NextRoundTrip ==
    \/ AuthStateChanged
    \/ IdTokenChanged
    \/ AdminsLookupDone
    \/ UsersLookupDone
    \/ LookupFailed
    \/ adminOps = EmptyBag /\ AdminInitialize
    \/ adminOps = EmptyBag /\ UsersChanged
    \/ adminOps = EmptyBag /\ UpdateUserRole
    \/ AdminStep

SpecRoundTrip == InitRoundTrip /\ [][NextRoundTrip]_vars

\* C11: when updateUserRole(p, user) on an id p of the admin registry has
\* completed and updateUserRole(p, admin), called right after it, completes
\* too, admins/{p} is present again and users/{p}/role is admin.
C11_DemoteThenPromoteRestores ==
    \A p \in TargetUids :
        JustCompleted(p, "admin", "demotion") =>
            /\ p \in admins
            /\ users[p] = "admin"

\* the round trip has run to its end for u2: both calls succeeded, each of
\* them sent its requests, and u2 is back in the registry
C11_Witness ==
    /\ JustCompleted("u2", "admin", "demotion")
    /\ IssuedPaths = {UsersRolePath, AdminsPath}
           \/ IssuedPaths = {UsersRolePath, LastModifiedPath, ModifiedByPath,
                             AdminsPath}
    /\ "u2" \in admins
    /\ users["u2"] = "admin"

\* user deletion, from a restored session of u1 or u2, with u2 a plain user
\* or a second admin
NextDelete ==
    \/ AuthStateChanged
    \/ IdTokenChanged
    \/ AdminsLookupDone
    \/ UsersLookupDone
    \/ LookupFailed
    \/ AdminInitialize
    \/ UsersChanged
    \/ DeleteUser
    \/ AdminStep

InitDelete == InitAdmin \/ InitRoundTrip

SpecDelete == InitDelete /\ [][NextDelete]_vars

\* C12: deleteUser(id) called by a non-admin is refused with no request
\* sent; called by an admin and ending in success it has left neither
\* users/{id} nor admins/{id} in the remote store.
C12_DeleteUserAdminOnly ==
    /\ (last.op = "deleteUser" /\ last.arg[1] = "call" /\ ~isAdmin) =>
           /\ last.err = "Unauthorized"
           /\ last.writes = <<>>
    /\ (last.op = "deleteUser" /\ last.arg[2] = "done"
            /\ last.err = "none") =>
           /\ users[last.key] = "absent"
           /\ last.key \notin admins

\* the admin u1 has deleted u2, which had a users record and a registry
\* entry: both removals were sent and both records are gone
C12_Witness ==
    /\ last.op = "deleteUser"
    /\ last.arg = <<"reloadAdmins", "done", "registered">>
    /\ last.err = "none"
    /\ last.key = "u2"
    /\ currentUser = "u1"
    /\ IssuedPaths = {UsersRemoval, AdminsRemoval}
    /\ users["u2"] = "absent"
    /\ "u2" \notin admins

\* ------------------------------------------------------------------------
\* Liveness flag
\* ------------------------------------------------------------------------
\* "Online if updated within 2 minutes": the window, in seconds
OnlineWindow == 120
\* Date.now() counts milliseconds; data.timestamp counts seconds
MsPerSecond == 1000

\* a bug that makes the window inclusive
WithinWindow_Inclusive(diffMs) == diffMs <= OnlineWindow * MsPerSecond

\* (now - deviceTime) < 120, in thousandths of a second
WithinWindow(diffMs) == diffMs < OnlineWindow * MsPerSecond

\* !device.data || !device.data.timestamp: an absent timestamp and the
\* timestamp 0 are both falsy
NoTimestamp(device) ==
    ~device.hasData \/ device.timestamp = {} \/ device.timestamp = {0}

\* isDeviceOnline(device), with now = Date.now() / 1000
isDeviceOnline(device) ==
    IF NoTimestamp(device) THEN FALSE
    ELSE LET deviceTime == CHOOSE t \in device.timestamp : TRUE
         IN WithinWindow((now.sec - deviceTime) * MsPerSecond + now.ms)

\* createDeviceCard(deviceId, device) for a device of the view: the card
\* shows the liveness flag computed at this instant
CreateDeviceCard ==
    \E deviceId \in DOMAIN userDevices :
        /\ last' = Did("createDeviceCard", deviceId, 0, <<>>,
                       IF isDeviceOnline(userDevices[deviceId])
                       THEN "true" ELSE "false",
                       "none", <<>>)
        /\ UNCHANGED <<devices, storeVars, adminVars, authVars, sessVars, dashVars, restVars>>

\* the instants at which the clock is read: the start of a second, one
\* millisecond after it and one millisecond before the next
Tick ==
    /\ now.sec < NowBase + MaxClock
    /\ now' = CASE now.ms = 0 -> [now EXCEPT !.ms = 1]
                [] now.ms = 1 -> [now EXCEPT !.ms = MsPerSecond - 1]
                [] OTHER -> [sec |-> now.sec + 1, ms |-> 0]
    /\ last' = Did("tick", "", 0, <<>>, "", "none", <<>>)
    /\ UNCHANGED <<devices, storeVars, adminVars, authVars, sessVars, dashVars, authStateCallbacks, subscribed>>

\* the device firmware (outside this repository) reports: data.timestamp
\* becomes the device's clock, which may be a second ahead
Heartbeat ==
    \E d \in DOMAIN devices, ahead \in {0, 1} :
        /\ devices' = [devices EXCEPT ![d].hasData = TRUE,
                                      ![d].timestamp = {now.sec + ahead}]
        /\ last' = Did("heartbeat", d, 0, <<>>, "", "none", <<>>)
        /\ UNCHANGED <<storeVars, adminVars, authVars, sessVars, dashVars, restVars>>

\* what a device had last reported when the page was loaded: nothing, a
\* record without timestamp, the timestamp 0, or a report that is 119, 120
\* or 121 seconds old
ReportsAtLoad ==
    {[hasData |-> FALSE, timestamp |-> {}]}
    \cup {[hasData |-> TRUE, timestamp |-> ts] :
              ts \in {{}, {0}, {NowBase - (OnlineWindow - 1)},
                      {NowBase - OnlineWindow},
                      {NowBase - (OnlineWindow + 1)}}}

\* a signed-in owner whose device had reported some time before the page
\* was loaded
InitOnline ==
    /\ \E r \in ReportsAtLoad :
           devices = Put(EmptyMap, "ESP32_A",
                         [Device("a@x.com", NoRelays, {}) EXCEPT
                              !.hasData = r.hasData,
                              !.timestamp = r.timestamp])
    /\ currentUser = "u1"
    /\ isAdmin = FALSE
    /\ SignedIn
    /\ dashVariant \in DashVariants
    /\ devicesData = EmptyMap
    /\ userDevices = EmptyMap
    /\ toggles = EmptyBag
    /\ last = Did("init", "", 0, <<>>, "", "none", <<>>)

NextOnline == SnapshotDelivered \/ Heartbeat \/ Tick \/ CreateDeviceCard

SpecOnline == InitOnline /\ [][NextOnline]_vars

\* the age of a report in thousandths of a second
AgeMs(t) == (now.sec - t) * MsPerSecond + now.ms

\* C13: the liveness flag shown for a device is true exactly when the
\* device has data with a timestamp whose age (now minus timestamp) is less
\* than 120 seconds; a report exactly 120 seconds old, a device without
\* data and a device without timestamp all give false.
C13_OnlineWithinWindow ==
    (last.op = "createDeviceCard") =>
        LET device == userDevices[last.key]
        IN /\ (last.cur = "true") <=>
                  (/\ device.hasData
                   /\ \E t \in device.timestamp :
                          AgeMs(t) < OnlineWindow * MsPerSecond)
           /\ (\E t \in device.timestamp :
                   AgeMs(t) = OnlineWindow * MsPerSecond)
                  => last.cur = "false"
           /\ (~device.hasData \/ device.timestamp = {})
                  => last.cur = "false"

\* a report exactly 120 seconds old is shown as offline
C13_Witness ==
    /\ last.op = "createDeviceCard"
    /\ last.cur = "false"
    /\ userDevices[last.key].hasData
    /\ \E t \in userDevices[last.key].timestamp :
           AgeMs(t) = OnlineWindow * MsPerSecond

\* ------------------------------------------------------------------------
\* The view and the principal's role
\* ------------------------------------------------------------------------
\* an administrator on another client changes the signed-in principal's
\* role: updateUserRole there writes users/{uid}/role and adds or removes
\* admins/{uid}
RoleChangedElsewhere ==
    \E role \in Roles :
        /\ currentUser # Null
        /\ (role = "admin") # (currentUser \in admins)
        /\ users' = [users EXCEPT ![currentUser] = role]
        /\ admins' = RegistryAfter(admins, currentUser, role)
        /\ last' = Did("roleChangedElsewhere", currentUser, 0, <<>>, role,
                       "none", <<>>)
        /\ UNCHANGED <<devices, accounts, adminVars, authVars, sessVars, dashVars, restVars>>

\* a signed-in principal with its role resolved and the dashboard
\* constructed and subscribed
InitSync ==
    /\ devices = EmptyMap
    /\ accounts = Uids
    /\ users = [u \in Uids |-> "user"]
    /\ currentUser = "u1"
    /\ isAdmin \in BOOLEAN
    /\ admins = IF isAdmin THEN {currentUser} ELSE {}
    /\ userRole = IF isAdmin THEN "admin" ELSE "user"
    /\ authVariant \in AuthVariants
    /\ fbUser = currentUser
    /\ lastNotified = currentUser
    /\ lookups = EmptyBag
    /\ NoAdminManager
    /\ now = [sec |-> NowBase, ms |-> 0]
    /\ authStateCallbacks = <<>>
    /\ subscribed = TRUE
    /\ dashVariant \in DashVariants
    /\ devicesData = EmptyMap
    /\ userDevices = EmptyMap
    /\ toggles = EmptyBag
    /\ last = Did("init", "", 0, <<>>, "", "none", <<>>)

NextSync ==
    \/ SnapshotDelivered
    \/ ProvisionDevice
    \/ RoleChangedElsewhere
    \/ IdTokenChanged
    \/ AdminsLookupDone
    \/ UsersLookupDone
    \/ LookupFailed

SpecSync == InitSync /\ [][NextSync]_vars

\* C14: after every snapshot delivery and after every role resolution (the
\* re-check on a token change included), userDevices is the filter of the
\* current devicesData under the principal's current role.
C14_ViewTracksRole ==
    (currentUser # Null /\ last.op \in {"snapshot", "roleResolved", "roleFailed"})
        => userDevices = filterUserDevices(devicesData)

\* ------------------------------------------------------------------------
\* Administration after the registry entry is gone
\* ------------------------------------------------------------------------
\* an administrator restores a session, opens the panel and uses it; another
\* administrator may change the role of the one signed in
NextRevoked ==
    \/ AuthStateChanged
    \/ IdTokenChanged
    \/ AdminsLookupDone
    \/ UsersLookupDone
    \/ LookupFailed
    \/ adminOps = EmptyBag /\ RoleChangedElsewhere
    \/ SessionSettled /\ AdminInitialize
    \/ SessionSettled /\ CreateUser_Auth
    \/ SessionSettled /\ CreateUser_Admin
    \/ SessionSettled /\ UpdateUserRole
    \/ SessionSettled /\ DeleteUser
    \/ AdminStep

SpecRevoked == InitAdmin /\ [][NextRevoked]_vars

\* C18: a createUser, updateUserRole or deleteUser call made by a signed-in
\* principal that has no admin-registry entry any more, although its
\* session still says admin, is rejected and sends no request.
C18_RevokedAdminRejected ==
    (/\ last.op \in {"createUser", "updateUserRole", "deleteUser"}
     /\ last.arg[1] = "call"
     /\ currentUser # Null
     /\ isAdmin
     /\ currentUser \notin admins) =>
        /\ last.err # "none"
        /\ last.writes = <<>>

\* ------------------------------------------------------------------------
\* Snapshots and the two caches
\* ------------------------------------------------------------------------
\* the dashboard stays subscribed to devices (no variant calls off()) while
\* devices are provisioned and report and the principal signs out
NextSnapshot ==
    \/ SnapshotDelivered
    \/ ProvisionDevice
    \/ Heartbeat
    \/ SignOut
    \/ AuthStateChanged

SpecSnapshot == InitSync /\ [][NextSnapshot]_vars

\* C20: devicesData is empty when the dashboard has been constructed and
\* nothing has been delivered; after a delivery it is the delivered
\* collection and userDevices has been replaced in the same step, so that
\* every device of the view is a device of that collection with the record
\* it has there, and the view is the filter of the collection for the
\* principal signed in.
C20_SnapshotReplacesBoth ==
    /\ last.op = "init" => devicesData = EmptyMap
    /\ last.op = "snapshot" =>
           /\ devicesData = devices
           /\ \A d \in DOMAIN userDevices :
                  /\ d \in DOMAIN devicesData
                  /\ userDevices[d] = devicesData[d]
           /\ currentUser # Null =>
                  userDevices = filterUserDevices(devicesData)

\* ------------------------------------------------------------------------
\* Notifications and subscription errors
\* ------------------------------------------------------------------------
\* what the DashboardManager handler that took the given step has shown
\* through showNotification: toggleRelay shows success after its write and
\* an error from its catch block, setPwm shows only the error of its catch
\* block (part_001:422-425, 438, 1011-1014, 1027).  No handler shows
\* anything for a subscription error: loadUserDevices (part_001:188) and
\* loadDevices (part_001:774) pass no cancel callback, and the cancel
\* callback of part_001:523 calls this.showNotification, which the class of
\* part_001:482-746 does not define.
Notification(step) ==
    CASE step.op = "toggleRelay" ->
             IF step.err = "none" THEN "success" ELSE "error"
      [] step.op \in {"toggleRelay.read", "setPwm"} ->
             IF step.err = "none" THEN "none" ELSE "error"
      [] step.op = "subscriptionError" -> "none"
      [] OTHER -> "none"

\* the remote store cancels the devices listener (permission denied): the
\* listener is removed; the cancel callback of part_001:523 logs the error
\* and throws at its call of showNotification
SubscriptionError ==
    /\ subscribed
    /\ subscribed' = FALSE
    /\ last' = Did("subscriptionError", "", 0, <<>>, "",
                   IF dashVariant = "dash482" THEN "TypeError" ELSE "none",
                   <<>>)
    /\ UNCHANGED <<devices, storeVars, adminVars, authVars, sessVars, dashVars, now,
                   authStateCallbacks>>

NextSubscription == SnapshotDelivered \/ ProvisionDevice \/ SubscriptionError

SpecSubscription == InitView /\ [][NextSubscription]_vars

\* C21: a subscription error on devices is shown as an error notification
\* and leaves devicesData and userDevices as they were.
C21_SubscriptionErrorSurfaced ==
    [][(last'.op = "subscriptionError") =>
           /\ Notification(last') = "error"
           /\ UNCHANGED <<devicesData, userDevices>>]_vars

\* C22: when a sign-out has been handled the devices listener is detached,
\* and while no principal is signed in nothing is delivered to the
\* dashboard: devicesData and userDevices keep the value they had at the
\* sign-out.
C22_SubscriptionReleased ==
    [][/\ (last'.op = "handleUserSignOut") => ~subscribed'
       /\ (currentUser = Null) =>
              (last'.op # "snapshot" /\ UNCHANGED <<devicesData, userDevices>>)]_vars

\* ------------------------------------------------------------------------
\* One write per command
\* ------------------------------------------------------------------------
\* one provisioned device that reports its relays, its owner signed in with
\* a fresh dashboard
InitOneDevice ==
    /\ devices = Put(EmptyMap, "ESP32_A",
                     Device("a@x.com",
                            [i \in RelayIds |->
                                 IF i = 0 THEN "false" ELSE "true"], {}))
    /\ currentUser = "u1"
    /\ isAdmin = FALSE
    /\ SignedIn
    /\ dashVariant \in {"dash164", "dash749"}
    /\ devicesData = EmptyMap
    /\ userDevices = EmptyMap
    /\ toggles = EmptyBag
    /\ last = Did("init", "", 0, <<>>, "", "none", <<>>)

\* the owner uses the relay buttons and the brightness slider
NextCmd ==
    \/ SnapshotDelivered
    \/ ToggleRelay_Cached
    \/ ToggleRelay_Read
    \/ ToggleRelay_Write
    \/ SetPwm

SpecCmd == InitOneDevice /\ [][NextCmd]_vars

\* a step of a toggleRelay or setPwm call, and a step that ends the call
CommandStep(step) == step.op \in {"toggleRelay", "toggleRelay.read", "setPwm"}
CommandEnded(step) ==
    \/ step.op \in {"toggleRelay", "setPwm"}
    \/ step.op = "toggleRelay.read" /\ step.err # "none"

\* the calls of set() that the call has made: the writes sent, and the one
\* that the SDK refused before sending
Attempts(step) ==
    Len(step.writes) + (IF step.err = "SetFailed" THEN 1 ELSE 0)

\* every write sent by the step goes to one leaf field of the step's device
LeafWrites(step) ==
    \A j \in 1..Len(step.writes) :
        /\ step.writes[j].path \in {RelayPath, PwmPath}
        /\ step.writes[j].key = step.key

\* C23 as stated: every toggleRelay or setPwm call attempts exactly one
\* write to one leaf field, never changes devicesData or userDevices, and
\* on failure ends with an error notification.
C23_ExactlyOneWrite ==
    [][/\ CommandStep(last') => UNCHANGED <<devicesData, userDevices>>
       /\ CommandEnded(last') =>
              /\ Attempts(last') = 1
              /\ LeafWrites(last')
              /\ last'.err # "none" => Notification(last') = "error"]_vars

\* C23 as amended: the call attempts exactly one write to one leaf field,
\* except that the toggleRelay which reads the remote state first attempts
\* none when that read fails; it never changes devicesData or userDevices,
\* never writes twice, and on failure ends with an error notification.
C23_AtMostOneWrite ==
    [][/\ CommandStep(last') => UNCHANGED <<devicesData, userDevices>>
       /\ CommandEnded(last') =>
              /\ Attempts(last') =
                     (IF last'.op = "toggleRelay.read" THEN 0 ELSE 1)
              /\ LeafWrites(last')
              /\ last'.err # "none" => Notification(last') = "error"]_vars

\* a toggleRelay whose write has failed after a snapshot was cached
C23_Witness ==
    /\ last.op = "toggleRelay"
    /\ last.err = "RemoteError"
    /\ Len(last.writes) = 1
    /\ Notification(last) = "error"
    /\ devicesData # EmptyMap

\* ------------------------------------------------------------------------
\* Concurrent toggles
\* ------------------------------------------------------------------------
\* the owner's client and the client of another principal toggle the relays
\* of the same device
NextRace ==
    \/ SnapshotDelivered
    \/ ToggleRelay_Cached
    \/ ToggleRelay_Read
    \/ ToggleRelay_ReadElsewhere
    \/ ToggleRelay_Write

SpecRace == InitOneDevice /\ [][NextRace]_vars

\* the toggleRelay calls still between their read and their write of the
\* relay that the last step wrote
PendingOnRelay ==
    {t \in BagToSet(toggles) : t.dev = last.key /\ t.idx = last.idx}

\* C25: nothing keeps two clients from reading the same state of a relay
\* before either writes.  The value stored after a write has landed is the
\* value of that write; a call that read the same state as a call of the
\* other client still in flight writes the negation of that state, and once
\* no call on the relay is in flight the relay is that one negation: it has
\* been toggled once, not twice.
C25_LastWriteWins ==
    (last.op = "toggleRelay" /\ last.err = "none") =>
        /\ devices[last.key].relays[last.idx] = last.writes[1].sval
        /\ (Len(last.arg) > 0 /\ last.arg[Len(last.arg)] = "raced") =>
               /\ last.writes[1].sval =
                      (IF last.cur = "true" THEN "false" ELSE "true")
               /\ PendingOnRelay = {} =>
                      devices[last.key].relays[last.idx] =
                          (IF last.cur = "true" THEN "false" ELSE "true")

\* two clients have read relay 0 of ESP32_A as off before either wrote; the
\* second write has landed, no call is in flight and the relay is on
C25_Witness ==
    /\ last.op = "toggleRelay"
    /\ last.err = "none"
    /\ last.key = "ESP32_A"
    /\ last.idx = 0
    /\ last.cur = "false"
    /\ Len(last.arg) > 0
    /\ last.arg[Len(last.arg)] = "raced"
    /\ toggles = EmptyBag
    /\ devices["ESP32_A"].relays[0] = "true"

\* C30: in the variant that reads the cache, a toggle that follows a toggle
\* of the same relay by the same client, with no snapshot delivered in
\* between, reads the same cached state and sends the same write; when it
\* lands the relay is the negation of the cached state.
C30_DoubleToggleNegatesOnce ==
    [][(/\ dashVariant = "dash164"
        /\ last.op = "toggleRelay"
        /\ last'.op = "toggleRelay"
        /\ last'.arg = <<"again">>) =>
           /\ last'.key = last.key /\ last'.idx = last.idx
           /\ last'.cur = last.cur
           /\ last'.cur = CachedRelay(last.key, last.idx)
           /\ last'.writes = last.writes
           /\ last'.err = "none" =>
                  devices'[last.key].relays[last.idx] =
                      (IF CachedRelay(last.key, last.idx) = "true"
                       THEN "false" ELSE "true")]_vars

\* relay 1 of ESP32_A, cached and stored as on, has been toggled twice
\* without a snapshot in between and is off
C30_Witness ==
    /\ dashVariant = "dash164"
    /\ last.op = "toggleRelay"
    /\ last.arg = <<"again">>
    /\ last.err = "none"
    /\ last.key = "ESP32_A"
    /\ last.idx = 1
    /\ CachedRelay("ESP32_A", 1) = "true"
    /\ devices["ESP32_A"].relays[1] = "false"

\* ------------------------------------------------------------------------
\* Role lookups that finish late
\* ------------------------------------------------------------------------
\* C26: in every reachable state of the session, isAdmin is true only while
\* a principal is current, also when a role lookup finishes after the
\* sign-out has been handled.
C26_AdminImpliesSignedIn == isAdmin => currentUser # Null

\* C27: when a role lookup has returned and none is pending, isAdmin is the
\* admin-registry membership of the current principal, whichever principal
\* or event the lookups were started for and in whichever order they
\* returned.
C27_RoleOfCurrentPrincipal ==
    (/\ last.op = "roleResolved"
     /\ last.err = "none"
     /\ lookups = EmptyBag
     /\ currentUser # Null) =>
        isAdmin = (currentUser \in admins)

\* C28: when the role resolution of the current principal has ended and no
\* lookup is pending, isAdmin is true exactly when userRole is admin, also
\* for a principal whose users record says admin and who is not in the
\* admin registry.
C28_RoleFieldsAgree ==
    (/\ last.op \in {"roleResolved", "roleFailed"}
     /\ last.err = "none"
     /\ last.key = currentUser
     /\ lookups = EmptyBag) =>
        (isAdmin <=> userRole = "admin")

\* ------------------------------------------------------------------------
\* Concurrent role changes
\* ------------------------------------------------------------------------
\* updateUserRole called on the panel of another admin, which runs the same
\* code against the same store and holds the same user list: the caller
\* passes the admin test of part_002:138 and the call suspends at the write
\* of users/{uid}/role
UpdateUserRole_Elsewhere ==
    /\ \E uid \in TargetUids, role \in Roles :
           LET o == AdminOp("updateUserRole", adminVariant, "role", uid, role,
                            <<>>)
               started == [o EXCEPT !.issued = Issued(o, "role"),
                                    !.after = "elsewhere"]
           IN /\ \A e \in BagToSet(adminOps) : e.after # "elsewhere"
              /\ adminOps' = adminOps (+) SetToBag({started})
              /\ last' = Did("updateUserRole", uid, 0,
                             StepOf("call", "pending", "elsewhere"),
                             role, "none", started.issued)
    /\ UNCHANGED <<devices, storeVars, authVars, sessVars, adminVariant,
                   adminDb, adminUsers, adminListening, dashVars, restVars>>

\* a request of a call completes and the call does not end in its catch
\* block
AdminStep_NoError ==
    /\ AdminStep
    /\ last'.err = "none"

\* the admin u1 is signed in with the panel loaded; the registry and the
\* role field of u2 agree
InitTwoAdmins ==
    /\ devices = EmptyMap
    /\ accounts = {"u1", "u2"}
    /\ \E r \in Roles :
           /\ admins = IF r = "admin" THEN {"u1", "u2"} ELSE {"u1"}
           /\ users = [u \in Uids |-> CASE u = "u1" -> "admin"
                                        [] u = "u2" -> r
                                        [] OTHER -> "absent"]
    /\ \/ authVariant = "auth.js" /\ adminVariant = "admin.js"
       \/ authVariant \in {"part_000", "part_001"} /\ adminVariant = "part_002"
    /\ fbUser = "u1"
    /\ lastNotified = "u1"
    /\ lookups = EmptyBag
    /\ currentUser = "u1"
    /\ userRole = "admin"
    /\ isAdmin = TRUE
    /\ adminDb = TRUE
    /\ adminUsers = {"u1", "u2"}
    /\ adminListening = TRUE
    /\ adminOps = EmptyBag
    /\ dashVariant = "dash749"
    /\ devicesData = EmptyMap
    /\ userDevices = EmptyMap
    /\ now = [sec |-> NowBase, ms |-> 0]
    /\ authStateCallbacks = <<>>
    /\ subscribed = FALSE
    /\ toggles = EmptyBag
    /\ last = Did("init", "", 0, <<>>, "", "none", <<>>)

\* role changes made on two panels, none of whose requests is rejected
NextTwoAdmins ==
    \/ UpdateUserRole
    \/ UpdateUserRole_Elsewhere
    \/ UsersChanged
    \/ AdminStep_NoError

SpecTwoAdmins == InitTwoAdmins /\ [][NextTwoAdmins]_vars

\* C29: starting from a store where admins/{id} exists exactly when
\* users/{id}/role is admin, when every updateUserRole call made has ended
\* without error, admins/{id} again exists exactly when users/{id}/role is
\* admin, also after two calls with different roles whose writes interleaved.
C29_RegistryMatchesRole ==
    (adminOps = EmptyBag) =>
        \A p \in TargetUids : (p \in admins) <=> (users[p] = "admin")

====
